---- MODULE Spec2Model ----
(***************************************************************************)
(* Echo cancellation pipeline of xiaozhi-webrtc:                           *)
(*   EchoCanceller            (src/src/audio/echo_canceller.py)            *)
(*   EchoCancellationManager  (src/src/audio/echo_manager.py)              *)
(*   EchoConfig               (src/src/config/echo_config.py)              *)
(*                                                                         *)
(* Representation.                                                         *)
(*  - A frame is a sequence of samples.  A sample is an integer, or the    *)
(*    value NaN standing for a non-finite float (nan, +inf, -inf).        *)
(*  - Python's None is the value None.                                     *)
(*  - A float (float32 / float64 intermediate, filter coefficient) is an   *)
(*    integer number of 1/Scale units ("fixed point"); a product of two    *)
(*    floats is rounded to the nearest unit, which is how the rounding of  *)
(*    the floating point product is represented.                           *)
(*  - Mean squares and sums of magnitudes are compared exactly, on         *)
(*    arbitrary-size naturals (sequences of base 10000 digits), since the  *)
(*    source computes them in float64 precisely to avoid overflow.         *)
(*  - time.time() is the variable now, in ticks of 1/TicksPerSecond s.     *)
(***************************************************************************)
EXTENDS Integers, Sequences, FiniteSets, TLC

\* ------------------------------------------------------------------ bounds

\* length of the adaptive filter (ADAPTIVE_FILTER_LENGTH, 1024 in the source)
ADAPTIVE_FILTER_LENGTH == 3
\* maxlen of echo_buffer (ECHO_BUFFER_SIZE, 100 in the source)
ECHO_BUFFER_SIZE == 3
\* maxlen of input_buffer (INPUT_BUFFER_SIZE, 50 in the source)
INPUT_BUFFER_SIZE == 2
\* number of most recent frames _get_reference_signal concatenates (10 in the source)
RefWindowFrames == 2
\* clock resolution and horizon
TicksPerSecond == 1
MaxTime == 2
\* calls of process_microphone_audio / successful update_reference_audio
\* between two resets, and resets in a run
MaxFrames == 2
MaxRefs == 2
MaxResets == 2
\* the same bounds for each of two managers called in turn
PairMaxTime == 1
PairMaxFrames == 2
PairMaxRefs == 1
PairMaxResets == 1

\* --------------------------------------------------------------- constants

\* units per 1.0 of a float
Scale == 1000
\* a non-finite sample; no sample and no intermediate of the frames used is 99999
NaN == 99999
\* NaN as a float inside the core, where values are in units of 1/Scale: above
\* every finite value the core can form; no arithmetic is done on it
FloatNaN == 2000000000
\* Python's None; no frame is <<-99999>>
None == <<-99999>>

\* EchoConfig.  WARMUP_DURATION is in seconds, NOISE_GATE_THRESHOLD in sample
\* units; the other four are floats, in units of 1/Scale (0.02, 0.7, 0.3, 1.0)
WARMUP_DURATION == 2
NOISE_GATE_THRESHOLD == 200
LEARNING_RATE == 20
WARMUP_GAIN_FACTOR == 700
NOISE_GATE_ATTENUATION == 300
GAIN_FACTOR == 1000

\* literals of echo_canceller.py: the clip ranges in sample units, and the
\* floats 0.8, 0.3, 0.7, 0.8 in units of 1/Scale
INT16_LIMIT == 32767
GRADIENT_LIMIT == 1000
COEFF_LIMIT == 10
ECHO_ENERGY_RATIO == 800
STRONG_REDUCTION == 300
NORMAL_REDUCTION == 700
ECHO_DETECT_RATIO == 800

\* literals of echo_manager.py: the silent frame's length, min_original_rms
\* in sample units, debug_interval in frames, and the floats min_energy_ratio
\* (0.1) and mix_ratio (0.3) in units of 1/Scale
SILENT_FRAME_LEN == 960
MIN_ORIGINAL_RMS == 100
DEBUG_INTERVAL == 200
MIN_ENERGY_RATIO == 100
MIX_RATIO == 300

\* ------------------------------------------------------------- arithmetic

Abs(x) == IF x < 0 THEN -x ELSE x
Sgn(x) == IF x < 0 THEN -1 ELSE 1
Min(a, b) == IF a < b THEN a ELSE b
Max(a, b) == IF a < b THEN b ELSE a

\* np.clip left out
ClipOmitted(x, lo, hi) == x

\* np.clip(x, lo, hi)
Clip(x, lo, hi) == IF x < lo THEN lo ELSE IF x > hi THEN hi ELSE x

\* x * (n / d) rounded to the nearest unit, for 0 <= n and 0 < d; the
\* quotient is formed first so that no intermediate exceeds |x| * Max(1, n/d)
MulFrac(x, n, d) ==
    Sgn(x) * ((Abs(x) \div d) * n + ((Abs(x) % d) * n + d \div 2) \div d)

\* float * float: the product of two fixed-point numbers, the second one a
\* non-negative constant
FMul(x, c) == MulFrac(x, c, Scale)

\* int -> float (astype(np.float32), astype(np.float64))
ToFloat(n) == n * Scale

\* float -> int16 (astype(np.int16)) of a value in the int16 range: the
\* fraction is discarded (truncation toward zero)
ToInt16(x) == Sgn(x) * (Abs(x) \div Scale)

\* np.clip(a * b, -lim, lim) for a float a and an integer b, without forming
\* a product larger than lim
ClipMul(a, b, lim) ==
    IF a = 0 \/ b = 0 THEN 0
    ELSE IF Abs(a) > lim \div Abs(b) THEN Sgn(a) * Sgn(b) * lim
    ELSE Clip(a * b, -lim, lim)

\* ---- naturals of arbitrary size: little-endian sequences of base 10000 digits

RECURSIVE BNCarry(_, _)
BNCarry(cols, c) ==
    IF cols = <<>>
    THEN IF c = 0 THEN <<>> ELSE <<c % 10000>> \o BNCarry(<<>>, c \div 10000)
    ELSE <<(Head(cols) + c) % 10000>> \o BNCarry(Tail(cols), (Head(cols) + c) \div 10000)

BNOf(n) == BNCarry(<<n>>, 0)

BNDigit(a, i) == IF i <= Len(a) THEN a[i] ELSE 0

BNAdd(a, b) ==
    BNCarry([i \in 1..Max(Len(a), Len(b)) |-> BNDigit(a, i) + BNDigit(b, i)], 0)

RECURSIVE BNColumn(_, _, _, _)
BNColumn(a, b, k, i) ==
    IF i > Len(a) THEN 0
    ELSE (IF k + 1 - i >= 1 /\ k + 1 - i <= Len(b) THEN a[i] * b[k + 1 - i] ELSE 0)
         + BNColumn(a, b, k, i + 1)

BNMul(a, b) ==
    IF a = <<>> \/ b = <<>> THEN <<>>
    ELSE BNCarry([k \in 1..(Len(a) + Len(b) - 1) |-> BNColumn(a, b, k, 1)], 0)

RECURSIVE BNLessFrom(_, _, _)
BNLessFrom(a, b, i) ==
    IF i = 0 THEN FALSE
    ELSE IF BNDigit(a, i) # BNDigit(b, i) THEN BNDigit(a, i) < BNDigit(b, i)
    ELSE BNLessFrom(a, b, i - 1)

BNLess(a, b) == BNLessFrom(a, b, Max(Len(a), Len(b)))

\* sum of x**2 over a frame (np.mean(x**2) * len(x))
RECURSIVE SumSq(_)
SumSq(s) ==
    IF s = <<>> THEN <<>>
    ELSE BNAdd(BNMul(BNOf(Abs(Head(s))), BNOf(Abs(Head(s)))), SumSq(Tail(s)))

\* sum of |x| over a frame (np.mean(np.abs(x)) * len(x))
RECURSIVE SumAbs(_)
SumAbs(s) == IF s = <<>> THEN <<>> ELSE BNAdd(BNOf(Abs(Head(s))), SumAbs(Tail(s)))

\* ------------------------------------------------------------------ frames

IsFinite(x) == x # NaN

\* np.all(np.isfinite(frame))
AllFinite(frame) == \A i \in 1..Len(frame) : IsFinite(frame[i])

\* np.all(np.isfinite(frame)) for a frame of floats
AllFiniteFloat(frame) == \A i \in 1..Len(frame) : frame[i] # FloatNaN

\* astype(np.float32), astype(np.float64) of a frame a caller passed
FrameToFloat(frame) ==
    [i \in 1..Len(frame) |-> IF IsFinite(frame[i]) THEN ToFloat(frame[i]) ELSE FloatNaN]

\* the frame used as it came
SanitizeOmitted(frame) == frame

\* np.where(np.isfinite(frame), frame, 0)
Sanitize(frame) == [i \in 1..Len(frame) |-> IF IsFinite(frame[i]) THEN frame[i] ELSE 0]

\* np.zeros(n)
Zeros(n) == [i \in 1..n |-> 0]

\* s[-n:] for 0 < n
LastN(s, n) == IF Len(s) <= n THEN s ELSE SubSeq(s, Len(s) - n + 1, Len(s))

\* a plain list in place of the deque: nothing is ever dropped
DequeAppendUnbounded(q, x, cap) == Append(q, x)

\* deque(maxlen = cap).append(x): the oldest element is dropped on overflow
DequeAppend(q, x, cap) == LastN(Append(q, x), cap)

\* np.concatenate(frames)
RECURSIVE Concat(_)
Concat(frames) == IF frames = <<>> THEN <<>> ELSE Head(frames) \o Concat(Tail(frames))

\* ------------------------------------------------------------ EchoCanceller
\* The operators below take the fields of the EchoCanceller they read as
\* arguments and return the values they compute; the actions assign them.
\* Frames that reach the core through the manager have been sanitized; a
\* caller of the EchoCanceller itself may pass frames of floats that hold NaN.
\* NaN propagates through every product, sum and np.clip, and every
\* comparison with NaN is false.

\* warmup_duration in clock ticks
WarmupTicks == WARMUP_DURATION * TicksPerSecond

\* the whole buffer concatenated
GetReferenceSignalAll(buffer) == Concat(buffer)

\* _get_reference_signal
GetReferenceSignal(buffer) == Concat(LastN(buffer, RefWindowFrames))

\* np.convolve(a, v, mode = "valid") for Len(a) >= Len(v): a is a frame of
\* integers, v the filter (floats); the result holds Len(a) - Len(v) + 1 floats
RECURSIVE Dot(_, _, _, _)
Dot(a, v, i, j) ==
    IF j > Len(v) THEN 0 ELSE v[j] * a[i + Len(v) - j] + Dot(a, v, i, j + 1)

\* a prediction for every sample of the window in place of the single valid one
ConvolveRepeated(a, v) == [i \in 1..Len(a) |-> Dot(a, v, 1, 1)]

ConvolveValid(a, v) ==
    [i \in 1..(Len(a) - Len(v) + 1) |->
        IF \E k \in i..(i + Len(v) - 1) : ~IsFinite(a[k])
        THEN FloatNaN
        ELSE Dot(a, v, i, 1)]

\* rms <= threshold in place of rms < threshold
RmsAtOrBelow(audio, threshold) ==
    ~BNLess(BNMul(BNMul(BNOf(ToFloat(threshold)), BNOf(ToFloat(threshold))),
                  BNOf(Len(audio))),
            SumSq(audio))

\* _noise_gate: rms < threshold is decided as sum(x**2) < threshold**2 * len(x)
RmsBelow(audio, threshold) ==
    BNLess(SumSq(audio),
           BNMul(BNMul(BNOf(ToFloat(threshold)), BNOf(ToFloat(threshold))),
                 BNOf(Len(audio))))

\* a mean that is not finite (no sample, or a NaN among them) makes rms 0.0
NoiseGateFactor(audio) ==
    IF Len(audio) = 0 \/ ~AllFiniteFloat(audio)
       \/ RmsBelow(audio, NOISE_GATE_THRESHOLD)
    THEN NOISE_GATE_ATTENUATION
    ELSE GAIN_FACTOR

NoiseGate(audio) ==
    [i \in 1..Len(audio) |->
        IF audio[i] = FloatNaN THEN FloatNaN
        ELSE Clip(FMul(audio[i], NoiseGateFactor(audio)),
                  -ToFloat(INT16_LIMIT), ToFloat(INT16_LIMIT))]

\* the ramp still applied at elapsed = warmup_duration
WarmupProcessingInclusive(audio, elapsed) ==
    IF elapsed <= WarmupTicks
    THEN [i \in 1..Len(audio) |->
            IF audio[i] = FloatNaN THEN FloatNaN
            ELSE FMul(MulFrac(audio[i], elapsed, WarmupTicks), WARMUP_GAIN_FACTOR)]
    ELSE audio

\* _warmup_processing at elapsed = time.time() - start_time
WarmupProcessing(audio, elapsed) ==
    IF elapsed < WarmupTicks
    THEN [i \in 1..Len(audio) |->
            IF audio[i] = FloatNaN THEN FloatNaN
            ELSE FMul(MulFrac(audio[i], elapsed, WarmupTicks), WARMUP_GAIN_FACTOR)]
    ELSE audio

\* np.mean(segment**2) * len(segment), 0.0 when it is not finite
Energy(segment) == IF AllFiniteFloat(segment) THEN SumSq(segment) ELSE <<>>

\* echo_energy > input_energy * 0.8, both means over the same number of samples
EchoEnergyHigh(input_segment, echo_segment) ==
    BNLess(BNMul(Energy(input_segment), BNOf(ECHO_ENERGY_RATIO)),
           BNMul(Energy(echo_segment), BNOf(Scale)))

\* the two factors taken for each other
EchoReductionSwapped(input_segment, echo_segment) ==
    IF EchoEnergyHigh(input_segment, echo_segment)
    THEN NORMAL_REDUCTION
    ELSE STRONG_REDUCTION

EchoReductionFactor(input_segment, echo_segment) ==
    IF EchoEnergyHigh(input_segment, echo_segment)
    THEN STRONG_REDUCTION
    ELSE NORMAL_REDUCTION

\* np.mean(np.abs(error)) < np.mean(np.abs(input_segment)) * 0.8
EchoDetected(error, input_segment) ==
    /\ AllFiniteFloat(error)
    /\ AllFiniteFloat(input_segment)
    /\ BNLess(BNMul(SumAbs(error), BNOf(Scale)),
              BNMul(SumAbs(input_segment), BNOf(ECHO_DETECT_RATIO)))

\* np.clip taking a NaN product to the upper limit
GradientSaturating(error, ref_segment) ==
    [i \in 1..Len(error) |->
        IF error[i] = FloatNaN \/ ~IsFinite(ref_segment[i])
        THEN ToFloat(GRADIENT_LIMIT)
        ELSE ClipMul(FMul(error[i], LEARNING_RATE), ref_segment[i],
                     ToFloat(GRADIENT_LIMIT))]

\* gradient = np.clip(learning_rate * error * ref_segment, -1000, 1000)
Gradient(error, ref_segment) ==
    [i \in 1..Len(error) |->
        IF error[i] = FloatNaN \/ ~IsFinite(ref_segment[i]) THEN FloatNaN
        ELSE ClipMul(FMul(error[i], LEARNING_RATE), ref_segment[i],
                     ToFloat(GRADIENT_LIMIT))]

\* the update without line 186
UpdateFilterUnclamped(filter, gradient) ==
    [i \in 1..Len(filter) |->
        filter[i] + (IF i <= Len(gradient) THEN gradient[i] ELSE 0)]

\* self.adaptive_filter[: len(error)] += gradient, then np.clip(..., -10, 10)
UpdateFilter(filter, gradient) ==
    [i \in 1..Len(filter) |->
        Clip(filter[i] + (IF i <= Len(gradient) THEN gradient[i] ELSE 0),
             -ToFloat(COEFF_LIMIT), ToFloat(COEFF_LIMIT))]

\* _subtract_echo: the cleaned frame, the filter and the echo_detected_frames
\* counter after the call
SubtractEcho(input_audio, predicted_echo, ref_signal, filter, detected) ==
    LET min_len == Min(Len(input_audio), Len(predicted_echo)) IN
    IF min_len <= 0
    THEN [cleaned |-> input_audio, filter |-> filter, detected |-> detected]
    ELSE
        LET input_segment == SubSeq(input_audio, 1, min_len)
            echo_segment == SubSeq(predicted_echo, 1, min_len)
            factor == EchoReductionFactor(input_segment, echo_segment)
            error == [i \in 1..min_len |->
                        IF input_segment[i] = FloatNaN \/ echo_segment[i] = FloatNaN
                        THEN FloatNaN
                        ELSE input_segment[i] - FMul(echo_segment[i], factor)]
            updates == Len(ref_signal) >= min_len /\ min_len <= Len(filter)
            ref_segment == SubSeq(ref_signal, 1, min_len)
            gradient == Gradient(error, ref_segment)
            padded == error \o Zeros(Len(input_audio) - min_len)
        IN  [cleaned |-> padded,
             filter |-> IF updates /\ AllFiniteFloat(gradient)
                        THEN UpdateFilter(filter, gradient)
                        ELSE filter,
             detected |-> IF updates /\ EchoDetected(error, input_segment)
                          THEN detected + 1
                          ELSE detected]

\* _echo_cancellation
EchoCancellation(input_audio, buffer, filter, detected) ==
    LET ref_data == GetReferenceSignal(buffer) IN
    IF Len(buffer) = 0 \/ Len(ref_data) < Len(filter)
    THEN [cleaned |-> NoiseGate(input_audio), filter |-> filter, detected |-> detected]
    ELSE
        LET ref_signal == LastN(ref_data, Len(filter))
            predicted_echo == ConvolveValid(ref_signal, filter)
            sub == SubtractEcho(input_audio, predicted_echo, ref_signal, filter, detected)
        IN  [cleaned |-> NoiseGate(sub.cleaned),
             filter |-> sub.filter,
             detected |-> sub.detected]

\* add_reference_audio
AddReferenceAudio(buffer, reference) ==
    IF reference # None THEN DequeAppend(buffer, reference, ECHO_BUFFER_SIZE) ELSE buffer

\* process_audio from line 78 on: the int16 frame returned, the filter and the
\* echo_detected_frames counter, given the echo_buffer after line 76
ProcessAudio(input_audio, buffer, filter, detected, elapsed) ==
    LET audio_float == FrameToFloat(input_audio)
        ec == EchoCancellation(audio_float, buffer, filter, detected)
        warmed == WarmupProcessing(ec.cleaned, elapsed)
        finite == [i \in 1..Len(warmed) |->
                    IF warmed[i] = FloatNaN THEN audio_float[i] ELSE warmed[i]]
    IN  [out |-> [i \in 1..Len(finite) |->
                    IF finite[i] = FloatNaN THEN NaN
                    ELSE ToInt16(Clip(finite[i],
                                      -ToFloat(INT16_LIMIT), ToFloat(INT16_LIMIT)))],
         filter |-> ec.filter,
         detected |-> ec.detected]

\* astype(np.int16) of NaN: the conversion is undefined in C, and the builds
\* of numpy give 0 or -32768
Int16OfNaN == {0, -32768}

\* the frames astype(np.int16) can give for what ProcessAudio returns, in
\* which NaN marks a sample that was still NaN when it was converted
RECURSIVE AsInt16(_)
AsInt16(out) ==
    IF out = <<>> THEN {<<>>}
    ELSE {<<head>> \o tail :
            head \in (IF IsFinite(Head(out)) THEN {Head(out)} ELSE Int16OfNaN),
            tail \in AsInt16(Tail(out))}

\* get_statistics of the EchoCanceller; echo_detection_rate is a float
CoreStatistics(processed, detected, buffer, elapsed) ==
    [processed_frames |-> processed,
     echo_detected_frames |-> detected,
     echo_detection_rate |->
        IF processed > 0 THEN ToFloat(detected) \div processed ELSE 0,
     warmup_completed |-> elapsed > WarmupTicks,
     buffer_size |-> Len(buffer)]

\* -------------------------------------------------- EchoCancellationManager

\* the test without "and original_rms > self.min_original_rms"
OverSuppressedNoFloor(original_audio, cleaned_audio, ratio) ==
    BNLess(BNMul(SumSq(cleaned_audio), BNMul(BNOf(Scale), BNOf(Scale))),
           BNMul(SumSq(original_audio), BNMul(BNOf(ratio), BNOf(ratio))))

\* cleaned_rms < original_rms * min_energy_ratio and original_rms > min_original_rms,
\* both frames of the same length; ratio is a float
OverSuppressed(original_audio, cleaned_audio, ratio) ==
    /\ BNLess(BNMul(SumSq(cleaned_audio), BNMul(BNOf(Scale), BNOf(Scale))),
              BNMul(SumSq(original_audio), BNMul(BNOf(ratio), BNOf(ratio))))
    /\ BNLess(BNMul(BNOf(MIN_ORIGINAL_RMS * MIN_ORIGINAL_RMS), BNOf(Len(original_audio))),
              SumSq(original_audio))

\* _mix_audio; original_ratio is a float
MixAudio(original_audio, processed_audio, original_ratio) ==
    [i \in 1..Len(original_audio) |->
        ToInt16(original_audio[i] * original_ratio
                + processed_audio[i] * (Scale - original_ratio))]

\* _safety_check_and_mix: the final frame, and whether over-suppression was counted
SafetyCheckAndMix(original_audio, cleaned_audio, ratio, mix) ==
    IF OverSuppressed(original_audio, cleaned_audio, ratio)
    THEN [final |-> MixAudio(original_audio, cleaned_audio, mix), over |-> TRUE]
    ELSE [final |-> cleaned_audio, over |-> FALSE]

\* the test for None alone
IsNoneInput(input_audio) == input_audio = None

\* input_audio is None or len(input_audio) == 0
IsEmptyInput(input_audio) == input_audio = None \/ Len(input_audio) = 0

\* "and" in place of "or"
BypassBoth(enable, reference) == ~enable /\ reference = None

\* not self.enable_echo_cancellation or self.reference_audio is None
Bypass(enable, reference) == ~enable \/ reference = None

\* a count of consecutive over-suppressed frames
CountConsecutive(count, over) == IF over THEN count + 1 ELSE 0

\* self.over_suppression_count += 1, on the over-suppression branch only
CountOverSuppression(count, over) == IF over THEN count + 1 ELSE count

\* ------------------------------------------------------------------- state

VARIABLES
    \* EchoCancellationManager
    enable_echo_cancellation, enable_debug, reference_audio, frame_count,
    over_suppression_count, min_energy_ratio, mix_ratio, debug_interval,
    \* EchoCanceller
    adaptive_filter, echo_buffer, input_buffer, start_time,
    processed_frames, echo_detected_frames,
    \* time.time()
    now,
    \* the last call: its name, the branch it took, its frame argument, the
    \* frame it returned
    op, path, arg, ret,
    \* bookkeeping since construction or the last reset: the frames stored by
    \* update_reference_audio, every frame appended to echo_buffer, the number
    \* of process_microphone_audio calls; and the number of resets
    supplied, appended, process_calls, resets,
    \* a second EchoCancellationManager in the same process: the variables
    \* above are the fields of the instance being called, active is its number,
    \* peer holds the fields of the other one (NoInstance when there is none)
    active, peer

manager_vars == <<enable_echo_cancellation, enable_debug, reference_audio, frame_count,
                  over_suppression_count, min_energy_ratio, mix_ratio, debug_interval>>
core_vars == <<adaptive_filter, echo_buffer, input_buffer, start_time,
               processed_frames, echo_detected_frames>>
call_vars == <<op, path, arg, ret>>
ghost_vars == <<supplied, appended, process_calls, resets>>
pair_vars == <<active, peer>>
vars == <<manager_vars, core_vars, now, call_vars, ghost_vars, pair_vars>>

\* frames a caller passes to update_reference_audio
ReferenceFrames ==
    {None, <<>>, <<5, 5>>, <<NaN>>}

\* frames a caller passes to process_microphone_audio
InputFrames ==
    {None, <<>>, <<-32768, 32767>>, <<7, NaN>>}

\* total_frames taken from the core's processed_frames
StatisticsOfCore ==
    [manager_stats |->
        [total_frames |-> processed_frames,
         over_suppression_count |-> over_suppression_count,
         over_suppression_rate |->
            ToFloat(over_suppression_count) \div Max(1, processed_frames),
         echo_cancellation_enabled |-> enable_echo_cancellation,
         has_reference_audio |-> reference_audio # None],
     echo_canceller_stats |->
        CoreStatistics(processed_frames, echo_detected_frames, echo_buffer,
                       now - start_time)]

\* get_statistics of the manager
Statistics ==
    [manager_stats |->
        [total_frames |-> frame_count,
         over_suppression_count |-> over_suppression_count,
         over_suppression_rate |->
            ToFloat(over_suppression_count) \div Max(1, frame_count),
         echo_cancellation_enabled |-> enable_echo_cancellation,
         has_reference_audio |-> reference_audio # None],
     echo_canceller_stats |->
        CoreStatistics(processed_frames, echo_detected_frames, echo_buffer,
                       now - start_time)]

\* EchoCancellationManager.__init__ and EchoCanceller.__init__, for a manager
\* built with or without echo cancellation and with or without debug output
Construct(enable, debug) ==
    /\ enable_echo_cancellation = enable
    /\ enable_debug = debug
    /\ reference_audio = None
    /\ frame_count = 0
    /\ over_suppression_count = 0
    /\ min_energy_ratio = MIN_ENERGY_RATIO
    /\ mix_ratio = MIX_RATIO
    /\ debug_interval = DEBUG_INTERVAL
    /\ adaptive_filter = Zeros(ADAPTIVE_FILTER_LENGTH)
    /\ echo_buffer = <<>>
    /\ input_buffer = <<>>
    /\ start_time = 0
    /\ processed_frames = 0
    /\ echo_detected_frames = 0
    /\ now = 0
    /\ op = "init" /\ path = "" /\ arg = <<>> /\ ret = <<>>
    /\ supplied = <<>> /\ appended = <<>> /\ process_calls = 0 /\ resets = 0

\* the process holds one manager only
NoInstance == <<>>

Alone == active = 1 /\ peer = NoInstance

\* EchoCancellationManager(enable_echo_cancellation = True or False), with
\* enable_debug left at its default
Init ==
    /\ \E enable \in BOOLEAN : Construct(enable, FALSE)
    /\ Alone

\* time passes between two calls
Tick ==
    /\ now < MaxTime
    /\ now' = now + 1
    /\ UNCHANGED <<manager_vars, core_vars, call_vars, ghost_vars, pair_vars>>

\* update_reference_audio(reference_samples).  fault names where the call
\* raises: "none"; "copy", reference_samples has no copy() (a tuple), raised
\* at line 71; "forward", the copy inside add_reference_audio (line 59) raises
\* (MemoryError).  np.where at line 69 yields an ndarray, so only a frame that
\* is all finite can lack copy().
UpdateReferenceAudio(reference_samples, fault) ==
    /\ Len(supplied) < MaxRefs
    /\ op' = "update_reference_audio"
    /\ arg' = reference_samples
    /\ ret' = <<>>
    /\ UNCHANGED <<enable_echo_cancellation, enable_debug, frame_count,
                   over_suppression_count, min_energy_ratio, mix_ratio, debug_interval,
                   adaptive_filter, input_buffer, start_time,
                   processed_frames, echo_detected_frames, now, process_calls, resets,
                   pair_vars>>
    /\ IF reference_samples = None \/ Len(reference_samples) = 0
       THEN /\ fault = "none"
            /\ path' = "skipped"
            /\ UNCHANGED <<reference_audio, echo_buffer, supplied, appended>>
       ELSE LET cleaned == IF AllFinite(reference_samples)
                           THEN reference_samples
                           ELSE Sanitize(reference_samples)
            IN  CASE fault = "copy" ->
                        /\ AllFinite(reference_samples)
                        /\ path' = "failed_copy"
                        /\ UNCHANGED <<reference_audio, echo_buffer, supplied, appended>>
                  [] fault = "forward" ->
                        /\ path' = "failed_forward"
                        /\ reference_audio' = cleaned
                        /\ UNCHANGED <<echo_buffer, supplied, appended>>
                  [] OTHER ->
                        /\ path' = "stored"
                        /\ reference_audio' = cleaned
                        /\ echo_buffer' = AddReferenceAudio(echo_buffer, cleaned)
                        /\ supplied' = Append(supplied, cleaned)
                        /\ appended' = Append(appended, cleaned)

\* self.frame_count % self.debug_interval at line 195, which Python evaluates
\* only when enable_debug is set, raises ZeroDivisionError for an interval of
\* 0; nothing in process_microphone_audio catches it
DebugRaises(debug, interval) == debug /\ interval = 0

\* process_microphone_audio(input_audio).  fault names where process_audio
\* raises: "none"; "copy", the copy inside add_reference_audio (line 59)
\* raises (MemoryError), after line 72 has run; "astype", line 79 raises
\* (input_audio is a plain list, or MemoryError), after lines 72-76 have run.
\* path "raised": the call ended with an exception and returned nothing.
ProcessMicrophoneAudio(input_audio, fault) ==
    /\ frame_count < MaxFrames
    /\ op' = "process_microphone_audio"
    /\ arg' = input_audio
    /\ frame_count' = frame_count + 1
    /\ process_calls' = process_calls + 1
    /\ UNCHANGED <<enable_echo_cancellation, enable_debug, reference_audio,
                   min_energy_ratio, mix_ratio, debug_interval, input_buffer,
                   start_time, now, supplied, resets, pair_vars>>
    /\ IF IsEmptyInput(input_audio)
       THEN /\ fault = "none"
            /\ path' = "empty"
            /\ ret' = Zeros(SILENT_FRAME_LEN)
            /\ UNCHANGED <<over_suppression_count, adaptive_filter, echo_buffer,
                           processed_frames, echo_detected_frames, appended>>
       ELSE
       LET original == IF AllFinite(input_audio) THEN input_audio ELSE Sanitize(input_audio)
       IN
       IF Bypass(enable_echo_cancellation, reference_audio)
       THEN /\ fault = "none"
            /\ path' = "bypass"
            /\ ret' = original
            /\ UNCHANGED <<over_suppression_count, adaptive_filter, echo_buffer,
                           processed_frames, echo_detected_frames, appended>>
       ELSE
       /\ processed_frames' = processed_frames + 1
       /\ CASE fault = "copy" ->
                /\ path' = "fallback"
                /\ ret' = original
                /\ UNCHANGED <<over_suppression_count, adaptive_filter, echo_buffer,
                               echo_detected_frames, appended>>
            [] fault = "astype" ->
                /\ path' = "fallback"
                /\ ret' = original
                /\ echo_buffer' = AddReferenceAudio(echo_buffer, reference_audio)
                /\ appended' = Append(appended, reference_audio)
                /\ UNCHANGED <<over_suppression_count, adaptive_filter,
                               echo_detected_frames>>
            [] OTHER ->
                \E core \in {ProcessAudio(original,
                                           AddReferenceAudio(echo_buffer, reference_audio),
                                           adaptive_filter, echo_detected_frames,
                                           now - start_time)} :
                \E safe \in {SafetyCheckAndMix(original, core.out,
                                                min_energy_ratio, mix_ratio)} :
                    /\ echo_buffer' = AddReferenceAudio(echo_buffer, reference_audio)
                    /\ appended' = Append(appended, reference_audio)
                    /\ adaptive_filter' = core.filter
                    /\ echo_detected_frames' = core.detected
                    /\ over_suppression_count' =
                            CountOverSuppression(over_suppression_count, safe.over)
                    /\ IF DebugRaises(enable_debug, debug_interval)
                       THEN path' = "raised" /\ ret' = <<>>
                       ELSE /\ path' = IF safe.over THEN "blend" ELSE "cancel"
                            /\ ret' = safe.final

\* EchoCanceller.reset without self.start_time = time.time()
CoreResetKeepsClock ==
    /\ adaptive_filter' = Zeros(ADAPTIVE_FILTER_LENGTH)
    /\ echo_buffer' = <<>>
    /\ input_buffer' = <<>>
    /\ start_time' = start_time
    /\ processed_frames' = 0
    /\ echo_detected_frames' = 0

\* EchoCanceller.reset without self.echo_detected_frames = 0
CoreResetKeepsDetected ==
    /\ adaptive_filter' = Zeros(ADAPTIVE_FILTER_LENGTH)
    /\ echo_buffer' = <<>>
    /\ input_buffer' = <<>>
    /\ start_time' = now
    /\ processed_frames' = 0
    /\ echo_detected_frames' = echo_detected_frames

\* EchoCanceller.reset without echo_buffer.clear()
CoreResetKeepsBuffer ==
    /\ adaptive_filter' = Zeros(ADAPTIVE_FILTER_LENGTH)
    /\ echo_buffer' = echo_buffer
    /\ input_buffer' = <<>>
    /\ start_time' = now
    /\ processed_frames' = 0
    /\ echo_detected_frames' = 0

\* EchoCanceller.reset
CoreReset ==
    /\ adaptive_filter' = Zeros(ADAPTIVE_FILTER_LENGTH)
    /\ echo_buffer' = <<>>
    /\ input_buffer' = <<>>
    /\ start_time' = now
    /\ processed_frames' = 0
    /\ echo_detected_frames' = 0

\* EchoCancellationManager.reset
Reset ==
    /\ resets < MaxResets
    /\ CoreReset
    /\ reference_audio' = None
    /\ frame_count' = 0
    /\ over_suppression_count' = 0
    /\ op' = "reset" /\ path' = "" /\ arg' = <<>> /\ ret' = <<>>
    /\ supplied' = <<>> /\ appended' = <<>> /\ process_calls' = 0
    /\ resets' = resets + 1
    /\ UNCHANGED <<enable_echo_cancellation, enable_debug, min_energy_ratio,
                   mix_ratio, debug_interval, now, pair_vars>>

\* values a caller passes to set_parameters (0.1, 0.15; 0.3, 0.25; 200, 1, 0);
\* set_parameters stores what it is given without looking at it
EnergyRatios == {MIN_ENERGY_RATIO, 150}
MixRatios == {MIX_RATIO, 250}
DebugIntervals == {DEBUG_INTERVAL, 1, 0}

\* the keyword arguments set_parameters looks for
ParameterNames ==
    {"enable_echo_cancellation", "min_energy_ratio", "mix_ratio", "debug_interval"}

\* the parameters of the EchoCanceller: fields assigned in its __init__ from
\* EchoConfig and by no other code
CoreParameterNames ==
    {"adaptive_filter_length", "learning_rate", "noise_gate_threshold",
     "noise_gate_attenuation"}

\* the value of a parameter in the current state, by name
ParameterValue(name) ==
    CASE name = "enable_echo_cancellation" -> enable_echo_cancellation
      [] name = "min_energy_ratio" -> min_energy_ratio
      [] name = "mix_ratio" -> mix_ratio
      [] name = "debug_interval" -> debug_interval
      [] name = "adaptive_filter_length" -> ADAPTIVE_FILTER_LENGTH
      [] name = "learning_rate" -> LEARNING_RATE
      [] name = "noise_gate_threshold" -> NOISE_GATE_THRESHOLD
      [] name = "noise_gate_attenuation" -> NOISE_GATE_ATTENUATION

\* the keyword arguments of one call, as a function from the names given to
\* their values; a core parameter is given a value other than its default
\* (filter length 2, learning rate 0.05, threshold 300, attenuation 0.5)
Options(keys, enable, ratio, mix, interval) ==
    [name \in keys |->
        CASE name = "enable_echo_cancellation" -> enable
          [] name = "min_energy_ratio" -> ratio
          [] name = "mix_ratio" -> mix
          [] name = "debug_interval" -> interval
          [] name = "adaptive_filter_length" -> 2
          [] name = "learning_rate" -> 50
          [] name = "noise_gate_threshold" -> 300
          [] name = "noise_gate_attenuation" -> 500]

\* only the enable flag is looked for
SetParametersEnableOnly(kwargs) ==
    /\ enable_echo_cancellation' =
            IF "enable_echo_cancellation" \in DOMAIN kwargs
            THEN kwargs["enable_echo_cancellation"]
            ELSE enable_echo_cancellation
    /\ op' = "set_parameters" /\ path' = "" /\ arg' = kwargs /\ ret' = <<>>
    /\ UNCHANGED <<enable_debug, reference_audio, frame_count, min_energy_ratio,
                   mix_ratio, debug_interval,
                   over_suppression_count, core_vars, now, ghost_vars, pair_vars>>

\* set_parameters(**kwargs); arg records kwargs
SetParameters(kwargs) ==
    /\ enable_echo_cancellation' =
            IF "enable_echo_cancellation" \in DOMAIN kwargs
            THEN kwargs["enable_echo_cancellation"]
            ELSE enable_echo_cancellation
    /\ min_energy_ratio' =
            IF "min_energy_ratio" \in DOMAIN kwargs
            THEN kwargs["min_energy_ratio"]
            ELSE min_energy_ratio
    /\ mix_ratio' =
            IF "mix_ratio" \in DOMAIN kwargs THEN kwargs["mix_ratio"] ELSE mix_ratio
    /\ debug_interval' =
            IF "debug_interval" \in DOMAIN kwargs
            THEN kwargs["debug_interval"]
            ELSE debug_interval
    /\ op' = "set_parameters" /\ path' = "" /\ arg' = kwargs /\ ret' = <<>>
    /\ UNCHANGED <<enable_debug, reference_audio, frame_count,
                   over_suppression_count, core_vars, now, ghost_vars, pair_vars>>

\* get_statistics(): returns Statistics and changes nothing
GetStatistics == UNCHANGED vars

Next ==
    \/ Tick
    \/ \E f \in ReferenceFrames, fault \in {"none", "copy", "forward"} :
            UpdateReferenceAudio(f, fault)
    \/ \E f \in InputFrames, fault \in {"none", "copy", "astype"} :
            ProcessMicrophoneAudio(f, fault)
    \/ Reset
    \/ \E enable \in BOOLEAN :
            SetParameters(Options({"enable_echo_cancellation"}, enable,
                                  MIN_ENERGY_RATIO, MIX_RATIO, DEBUG_INTERVAL))
    \/ GetStatistics

Spec == Init /\ [][Next]_vars

\* ------------------------------------------- the EchoCanceller called directly
\* EchoCanceller is a public class: add_reference_audio and process_audio are
\* also called without the manager in front of them, and then nothing has
\* validated the frames.

\* frames a caller passes to add_reference_audio, or to process_audio as
\* reference_audio
CoreReferenceFrames ==
    {None, <<>>, <<9>>, <<5, 5>>}

\* frames a caller passes to process_audio: one below the noise gate
\* threshold, one exactly at it, one far above it
CoreInputFrames ==
    {<<7, -150>>, <<200, 200>>, <<-32768, 32767>>}

\* EchoCanceller.__init__, inside a manager that is left alone
CoreInit == Init /\ enable_echo_cancellation

\* echo_canceller.add_reference_audio(reference)
CoreAddReferenceAudio(reference) ==
    /\ Len(appended) <= ECHO_BUFFER_SIZE
    /\ op' = "add_reference_audio" /\ path' = "" /\ arg' = reference /\ ret' = <<>>
    /\ echo_buffer' = AddReferenceAudio(echo_buffer, reference)
    /\ appended' = IF reference # None
                   THEN Append(appended, reference)
                   ELSE appended
    /\ UNCHANGED <<manager_vars, adaptive_filter, input_buffer, start_time,
                   processed_frames, echo_detected_frames, now,
                   supplied, process_calls, resets, pair_vars>>

\* echo_canceller.process_audio(input_audio, reference_audio = reference).  path records
\* which return of _echo_cancellation was taken: "gate" for lines 109 and 115,
\* "predict" for line 127.
CoreProcessAudio(input_audio, reference) ==
    /\ processed_frames < MaxFrames
    /\ Len(appended) <= ECHO_BUFFER_SIZE
    /\ op' = "process_audio" /\ arg' = input_audio
    /\ processed_frames' = processed_frames + 1
    /\ echo_buffer' = AddReferenceAudio(echo_buffer, reference)
    /\ appended' = IF reference # None
                   THEN Append(appended, reference)
                   ELSE appended
    /\ \E buffer \in {AddReferenceAudio(echo_buffer, reference)} :
       \E core \in {ProcessAudio(input_audio, buffer, adaptive_filter,
                                  echo_detected_frames, now - start_time)} :
            /\ adaptive_filter' = core.filter
            /\ echo_detected_frames' = core.detected
            /\ ret' \in AsInt16(core.out)
            /\ path' = IF Len(buffer) = 0
                          \/ Len(GetReferenceSignal(buffer)) < Len(adaptive_filter)
                       THEN "gate"
                       ELSE "predict"
    /\ UNCHANGED <<manager_vars, input_buffer, start_time, now,
                   supplied, process_calls, resets, pair_vars>>

CoreNext ==
    \/ Tick
    \/ \E f \in CoreReferenceFrames : CoreAddReferenceAudio(f)
    \/ \E f \in CoreInputFrames, r \in CoreReferenceFrames : CoreProcessAudio(f, r)
    \/ \E f \in {None, <<>>} : UpdateReferenceAudio(f, "none")

CoreSpec == CoreInit /\ [][CoreNext]_vars

\* ------------------------------- the EchoCanceller given frames of floats
\* The caller of add_reference_audio and process_audio passes float arrays,
\* which can hold NaN; nothing sanitizes them on the way in.

RawReferenceFrames == {None, <<5, 5>>, <<NaN, 5>>, <<5, NaN>>}
RawInputFrames == {<<200, 200>>, <<NaN, 200>>, <<7, NaN>>}

RawNext ==
    \/ Tick
    \/ \E f \in RawReferenceFrames : CoreAddReferenceAudio(f)
    \/ \E f \in RawInputFrames, r \in RawReferenceFrames : CoreProcessAudio(f, r)

RawSpec == CoreInit /\ [][RawNext]_vars

\* ------------------------------------- a manager configured while it runs
\* The manager with or without debug output, its parameters changed between
\* frames.

\* frames a caller passes to update_reference_audio and to
\* process_microphone_audio
ConfigReferenceFrames == {<<5, 5>>}
ConfigInputFrames == {<<400, 1000>>}

\* the sets of names given in one call of set_parameters: none, one name,
\* or all of them
ConfigKeySets ==
    {{}} \cup {{name} : name \in ParameterNames \cup CoreParameterNames}
         \cup {ParameterNames \cup CoreParameterNames}

ConfigOptions ==
    {Options(keys, enable, ratio, mix, interval) :
        keys \in ConfigKeySets, enable \in BOOLEAN, ratio \in EnergyRatios,
        mix \in MixRatios, interval \in DebugIntervals}

\* EchoCancellationManager(enable_debug = True or False)
ConfigInit ==
    /\ \E debug \in BOOLEAN : Construct(TRUE, debug)
    /\ Alone

ConfigNext ==
    \/ Tick
    \/ \E f \in ConfigReferenceFrames : UpdateReferenceAudio(f, "none")
    \/ \E f \in ConfigInputFrames : ProcessMicrophoneAudio(f, "none")
    \/ \E kwargs \in ConfigOptions : SetParameters(kwargs)

ConfigSpec == ConfigInit /\ [][ConfigNext]_vars

\* ------------------------------------------- two managers in one process
\* Two EchoCancellationManager objects built one after the other and called
\* in any order by one thread.  time.time() is the one clock of both.

\* the fields of the instance being called
Instance ==
    [enable_echo_cancellation |-> enable_echo_cancellation,
     enable_debug |-> enable_debug,
     reference_audio |-> reference_audio,
     frame_count |-> frame_count,
     over_suppression_count |-> over_suppression_count,
     min_energy_ratio |-> min_energy_ratio,
     mix_ratio |-> mix_ratio,
     debug_interval |-> debug_interval,
     adaptive_filter |-> adaptive_filter,
     echo_buffer |-> echo_buffer,
     input_buffer |-> input_buffer,
     start_time |-> start_time,
     processed_frames |-> processed_frames,
     echo_detected_frames |-> echo_detected_frames,
     op |-> op, path |-> path, arg |-> arg, ret |-> ret,
     supplied |-> supplied, appended |-> appended,
     process_calls |-> process_calls, resets |-> resets]

\* echo_buffer = deque(...) as an attribute of the class EchoCanceller: one
\* deque behind every instance
SharedEchoBuffer == {"echo_buffer"}

\* the fields that are one object behind every instance: none.  __init__
\* binds a new deque, a new array and new numbers to self in each instance;
\* neither class has a class-level attribute, the module has no global, and
\* EchoConfig is only read.
SharedObjects == {}

\* the value the other instance finds in its field name: its own (theirs),
\* or, for an object the two share, the one left by the calls made since
\* (mine)
Own(name, mine, theirs) == IF name \in SharedObjects THEN mine ELSE theirs

\* the caller turns to the other instance: its fields are what its own calls
\* left in them, but for the objects it shares
Switch ==
    /\ peer # NoInstance
    /\ active' = 3 - active
    /\ peer' = Instance
    /\ enable_echo_cancellation' = peer.enable_echo_cancellation
    /\ enable_debug' = peer.enable_debug
    /\ reference_audio' = Own("reference_audio", reference_audio, peer.reference_audio)
    /\ frame_count' = peer.frame_count
    /\ over_suppression_count' = peer.over_suppression_count
    /\ min_energy_ratio' = peer.min_energy_ratio
    /\ mix_ratio' = peer.mix_ratio
    /\ debug_interval' = peer.debug_interval
    /\ adaptive_filter' = Own("adaptive_filter", adaptive_filter, peer.adaptive_filter)
    /\ echo_buffer' = Own("echo_buffer", echo_buffer, peer.echo_buffer)
    /\ input_buffer' = Own("input_buffer", input_buffer, peer.input_buffer)
    /\ start_time' = peer.start_time
    /\ processed_frames' = peer.processed_frames
    /\ echo_detected_frames' = peer.echo_detected_frames
    /\ op' = peer.op /\ path' = peer.path /\ arg' = peer.arg /\ ret' = peer.ret
    /\ supplied' = peer.supplied /\ appended' = peer.appended
    /\ process_calls' = peer.process_calls /\ resets' = peer.resets
    /\ UNCHANGED now

\* frames a caller passes to update_reference_audio and to
\* process_microphone_audio
PairReferenceFrames == {<<5, 5>>}
PairInputFrames == {<<400, 1000>>}

\* what a caller passes to set_parameters
PairOptions ==
    {Options({"min_energy_ratio", "mix_ratio"}, TRUE, 150, 250, DEBUG_INTERVAL)}

\* a = EchoCancellationManager(); b = EchoCancellationManager()
PairInit ==
    /\ Construct(TRUE, FALSE)
    /\ active = 1
    /\ peer = Instance

PairNext ==
    \/ now < PairMaxTime /\ Tick
    \/ \E f \in PairReferenceFrames :
            Len(supplied) < PairMaxRefs /\ UpdateReferenceAudio(f, "none")
    \/ \E f \in PairInputFrames :
            frame_count < PairMaxFrames /\ ProcessMicrophoneAudio(f, "none")
    \/ \E kwargs \in PairOptions : SetParameters(kwargs)
    \/ resets < PairMaxResets /\ Reset
    \/ Switch

PairSpec == PairInit /\ [][PairNext]_vars

\* ------------------------------ two managers driven by the same calls
\* Instance 1 is built with enable_debug = True, instance 2 with
\* enable_debug = False.  The caller makes every update_reference_audio and
\* process_microphone_audio call on instance 1 and then, before the clock
\* moves, on instance 2 with the same frame; it sets the debug interval of
\* instance 1 between two such calls.

\* frames a caller passes to process_microphone_audio
TwinInputFrames == {<<400, 1000>>, <<7, -150>>}

\* the update_reference_audio and process_microphone_audio calls an
\* instance has received
Calls(instance) == instance.process_calls + Len(instance.supplied)

\* both instances have received the same calls
InSync == Calls(Instance) = Calls(peer)

\* the next call of the given method with the given frame is due: a new
\* call on instance 1, or the last call of instance 1 repeated on instance 2
Turn(method, frame) ==
    \/ active = 1 /\ InSync
    \/ active = 2 /\ ~InSync /\ peer.op = method /\ peer.arg = frame

\* a = EchoCancellationManager(enable_debug=True);
\* b = EchoCancellationManager(enable_debug=False)
TwinInit ==
    /\ Construct(TRUE, TRUE)
    /\ active = 1
    /\ peer = [Instance EXCEPT !.enable_debug = FALSE]

TwinNext ==
    \/ active = 1 /\ InSync /\ Tick
    \/ \E interval \in DebugIntervals :
            /\ active = 1 /\ InSync
            /\ SetParameters(Options({"debug_interval"}, TRUE, MIN_ENERGY_RATIO,
                                     MIX_RATIO, interval))
    \/ \E f \in PairReferenceFrames :
            Turn("update_reference_audio", f) /\ UpdateReferenceAudio(f, "none")
    \/ \E f \in TwinInputFrames :
            Turn("process_microphone_audio", f) /\ ProcessMicrophoneAudio(f, "none")
    \/ (active = 1) # InSync /\ Switch

TwinSpec == TwinInit /\ [][TwinNext]_vars

\* ------------------------------------------------------------------ claims

InInt16Limit(frame) ==
    \A i \in 1..Len(frame) : -INT16_LIMIT <= frame[i] /\ frame[i] <= INT16_LIMIT

\* the last call was process_microphone_audio
Processed == op = "process_microphone_audio"

\* a null or zero-length frame
NoSamples(frame) == frame = None \/ frame = <<>>

\* C1, as stated: whatever frame process_microphone_audio is given and
\* whichever path it takes, the frame it returns has as many samples as the
\* frame it was given and every sample of it lies in [-32767, 32767].
C1_AsStated ==
    (Processed /\ arg # None) => Len(ret) = Len(arg) /\ InInt16Limit(ret)

\* C1, amended: for a non-empty input frame the returned frame has as many
\* samples as the input; when the frame went through the core (cancel or
\* over-suppression blend) every returned sample lies in [-32767, 32767]; on
\* bypass and on the exception fallback the returned frame is the sanitized
\* input itself, so a sample of it is in that range only if the input's is.
C1_LengthAndRange ==
    (Processed /\ ~NoSamples(arg)) =>
        /\ Len(ret) = Len(arg)
        /\ path \in {"cancel", "blend"} => InInt16Limit(ret)
        /\ path \in {"bypass", "fallback"} => ret = Sanitize(arg)

\* an input sample of -32768 came out of the core as -32767
C1_Witness ==
    /\ Processed /\ path = "cancel"
    /\ arg[1] = -INT16_LIMIT - 1
    /\ ret[1] = -INT16_LIMIT

Fresh ==
    /\ frame_count = 0 /\ over_suppression_count = 0
    /\ processed_frames = 0 /\ echo_detected_frames = 0
    /\ \A i \in 1..Len(adaptive_filter) : adaptive_filter[i] = 0
    /\ echo_buffer = <<>> /\ input_buffer = <<>>
    /\ reference_audio = None

\* C3: after reset() all counters are 0, every filter coefficient is 0, both
\* histories are empty and no reference is stored; a second reset() leaves
\* all of these as they are.
C3_ResetIdempotent ==
    /\ [](op = "reset" => Fresh)
    /\ [][(op = "reset" /\ resets' = resets + 1) =>
            UNCHANGED <<frame_count, over_suppression_count, processed_frames,
                        echo_detected_frames, adaptive_filter, echo_buffer,
                        input_buffer, reference_audio>>]_vars

\* a second reset has happened
C3_Witness == op = "reset" /\ resets = 2

\* C4: every filter coefficient has magnitude at most 10.
C4_CoefficientBound ==
    \A i \in 1..Len(adaptive_filter) :
        Abs(adaptive_filter[i]) <= ToFloat(COEFF_LIMIT)

\* a coefficient sits on the clamp
C4_Witness ==
    \E i \in 1..Len(adaptive_filter) : Abs(adaptive_filter[i]) = ToFloat(COEFF_LIMIT)

\* C5: echo_buffer never holds more frames than its capacity, nor input_buffer.
C5_HistoryBound ==
    /\ Len(echo_buffer) <= ECHO_BUFFER_SIZE
    /\ Len(input_buffer) <= INPUT_BUFFER_SIZE

\* more frames were appended to echo_buffer than it holds
C5_Witness == Len(echo_buffer) = ECHO_BUFFER_SIZE /\ Len(appended) > ECHO_BUFFER_SIZE

\* C6, as stated: echo_buffer holds exactly the most recent min(k, capacity)
\* frames stored through update_reference_audio, in supply order; process
\* calls add nothing to it.
C6_AsStated == echo_buffer = LastN(supplied, ECHO_BUFFER_SIZE)

\* C7: in a step that is not a reset none of frame_count, processed_frames,
\* echo_detected_frames, over_suppression_count becomes smaller.
C7_CountersMonotone ==
    [][resets' = resets =>
        /\ frame_count' >= frame_count
        /\ processed_frames' >= processed_frames
        /\ echo_detected_frames' >= echo_detected_frames
        /\ over_suppression_count' >= over_suppression_count]_vars

\* frames have been counted by the manager and the core, one of them as
\* over-suppressed, and the last one was not over-suppressed
C7_Witness ==
    /\ Processed /\ path = "cancel"
    /\ frame_count >= 2 /\ processed_frames >= 2
    /\ over_suppression_count >= 1

\* C8: statistics() reports as total_frames the number of process calls made
\* since construction or the last reset, whichever paths they took.
C8_EveryCallCounted == Statistics.manager_stats.total_frames = process_calls

\* a bypass and an exception fallback have both been counted
C8_Witness ==
    /\ Processed /\ path = "fallback"
    /\ Statistics.manager_stats.total_frames = 2
    /\ processed_frames = 1

\* C9: process called with a null or zero-length frame returns 960 zeros and
\* leaves the filter, both histories, the stored reference and the
\* echo-detected and over-suppression counters as they were.
C9_EmptyInput ==
    [][(process_calls' = process_calls + 1 /\ NoSamples(arg')) =>
        /\ Len(ret') = 960
        /\ \A i \in 1..Len(ret') : ret'[i] = 0
        /\ UNCHANGED <<adaptive_filter, echo_buffer, input_buffer, reference_audio,
                       echo_detected_frames, over_suppression_count>>]_vars

\* a zero-length frame arrived while a reference was stored and the filter had adapted
C9_Witness ==
    /\ Processed /\ arg = <<>> /\ Len(ret) = 960
    /\ enable_echo_cancellation /\ reference_audio # None
    /\ adaptive_filter[1] # 0

\* C10, as stated: an update_reference_audio call that fails, in validation
\* or while the frame is forwarded to add_reference_audio, leaves the stored
\* reference and echo_buffer exactly as they were.
C10_AsStated ==
    [][(op' = "update_reference_audio" /\ path' \in {"failed_copy", "failed_forward"}) =>
        UNCHANGED <<reference_audio, echo_buffer>>]_vars

\* C11, as stated: add_reference_audio called with None or with a frame of
\* length 0 changes nothing, echo_buffer included; update_reference_audio
\* called with None or a frame of length 0 changes nothing either, the stored
\* reference included.
C11_AsStated ==
    [][(op' \in {"add_reference_audio", "update_reference_audio"} /\ NoSamples(arg')) =>
        UNCHANGED <<manager_vars, core_vars>>]_vars

\* C12: when cancellation is enabled and a reference is stored, a process
\* call in which process_audio raises returns the input frame with every
\* non-finite sample replaced by 0 and every other sample as given, and does
\* not count an over-suppression.
C12_FallbackOnException ==
    [][(process_calls' = process_calls + 1 /\ path' = "fallback") =>
        /\ enable_echo_cancellation /\ reference_audio # None
        /\ Len(ret') = Len(arg')
        /\ \A i \in 1..Len(arg') : ret'[i] = IF arg'[i] = NaN THEN 0 ELSE arg'[i]
        /\ over_suppression_count' = over_suppression_count]_vars

\* process_audio raised on a frame with a non-finite sample, after an earlier
\* frame had been counted as over-suppressed
C12_Witness ==
    /\ Processed /\ path = "fallback"
    /\ arg = <<7, NaN>> /\ ret = <<7, 0>>
    /\ over_suppression_count = 1

\* C13, as stated: whatever parameter values set_parameters has stored, a
\* call of process_microphone_audio or update_reference_audio returns; none
\* ends with an exception that reaches the caller.
C13_AsStated == path # "raised"

\* the frame process_audio returns for the frame given to the process call
\* of this step: the cancelled frame
CancelledFrame ==
    ProcessAudio([i \in 1..Len(arg') |-> IF arg'[i] = NaN THEN 0 ELSE arg'[i]],
                 AddReferenceAudio(echo_buffer, reference_audio),
                 adaptive_filter, echo_detected_frames, now - start_time).out

\* C15: for a frame that goes through cancellation, the over-suppression
\* counter goes up by exactly 1 and the returned frame is, sample by sample,
\* mix_ratio times the original plus (1 - mix_ratio) times the cancelled
\* frame, if and only if the RMS of the cancelled frame is below
\* min_energy_ratio times the RMS of the original and the RMS of the original
\* is above 100; otherwise the counter is unchanged and the returned frame is
\* the cancelled frame.
C15_OverSuppressionIff ==
    [][(process_calls' = process_calls + 1 /\ path' \in {"cancel", "blend"}) =>
        \A original \in {[i \in 1..Len(arg') |-> IF arg'[i] = NaN THEN 0 ELSE arg'[i]]} :
        \A cancelled \in {CancelledFrame} :
        \A below \in {BNLess(BNMul(SumSq(cancelled), BNOf(Scale * Scale)),
                             BNMul(SumSq(original),
                                   BNOf(min_energy_ratio * min_energy_ratio)))} :
        \A audible \in {BNLess(BNOf(100 * 100 * Len(original)), SumSq(original))} :
            IF below /\ audible
            THEN /\ over_suppression_count' = over_suppression_count + 1
                 /\ ret' = [i \in 1..Len(original) |->
                                ToInt16(original[i] * mix_ratio
                                        + cancelled[i] * (Scale - mix_ratio))]
            ELSE /\ over_suppression_count' = over_suppression_count
                 /\ ret' = cancelled]_vars

\* a loud frame cancelled to silence during warmup came back as 0.3 of itself
C15_Witness ==
    /\ Processed /\ path = "blend"
    /\ arg = <<-32768, 32767>> /\ ret = <<-9830, 9830>>
    /\ over_suppression_count = 1

\* what set_parameters must leave alone whatever it is given: the counters,
\* the stored reference, the filter, both histories, the debug flag
ConfigureFrame ==
    UNCHANGED <<frame_count, over_suppression_count, processed_frames,
                echo_detected_frames, reference_audio, adaptive_filter,
                echo_buffer, input_buffer, start_time, enable_debug>>

\* C16, as stated: set_parameters(options) gives every tunable parameter
\* named in options the value given for it (filter length, learning rate,
\* noise gate threshold and attenuation included), and leaves every parameter
\* not named, the counters, the stored reference, the filter and both
\* histories unchanged.
C16_AsStated ==
    [][op' = "set_parameters" =>
        /\ \A name \in DOMAIN arg' : ParameterValue(name)' = arg'[name]
        /\ \A name \in (ParameterNames \cup CoreParameterNames) \ DOMAIN arg' :
                ParameterValue(name)' = ParameterValue(name)
        /\ ConfigureFrame]_vars

\* C16, amended: set_parameters(options) gives each of the four parameters
\* it handles (enable flag, minimum energy ratio, mix ratio, debug interval)
\* that is named in options the value given for it; it ignores every other
\* option, so filter length, learning rate, noise gate threshold and
\* attenuation keep the values they got at construction; every parameter not
\* named, the counters, the stored reference, the filter and both histories
\* are unchanged.
C16_HandledOptions ==
    [][op' = "set_parameters" =>
        /\ \A name \in DOMAIN arg' \cap ParameterNames :
                ParameterValue(name)' = arg'[name]
        /\ \A name \in (ParameterNames \ DOMAIN arg') \cup CoreParameterNames :
                ParameterValue(name)' = ParameterValue(name)
        /\ ConfigureFrame]_vars

\* one call named all eight parameters, on a manager that had processed a frame
C16_Witness ==
    /\ op = "set_parameters"
    /\ DOMAIN arg = ParameterNames \cup CoreParameterNames
    /\ ~enable_echo_cancellation /\ min_energy_ratio = 150 /\ mix_ratio = 250
    /\ debug_interval = 1
    /\ frame_count = 1 /\ adaptive_filter[1] # 0

\* C17, as stated: each tunable parameter (filter length, learning rate,
\* noise gate threshold and attenuation, minimum energy ratio, mix ratio,
\* debug interval, enable flag) can be changed through set_parameters at any
\* time: once the call has returned the parameter has the value given, which
\* is the value the very next process call is computed with.
C17_AsStated ==
    op = "set_parameters" =>
        \A name \in DOMAIN arg : ParameterValue(name) = arg[name]

\* the value the last set_parameters call leaves a parameter with: the value
\* given for it if it was named, its value before otherwise
Effective(name) ==
    IF name \in DOMAIN arg THEN arg[name] ELSE ParameterValue(name)

\* C17, amended: each of the four parameters set_parameters handles can be
\* changed at any time, and the process call that follows reads the new
\* value: its bypass decision uses the new enable flag, its over-suppression
\* test the new minimum energy ratio, its blend the new mix ratio, and its
\* telemetry test (frame count modulo interval, made when debug is enabled)
\* the new debug interval.
C17_NextCallUsesNewValue ==
    [][(op = "set_parameters" /\ process_calls' = process_calls + 1
            /\ ~NoSamples(arg')) =>
        \A enable \in {Effective("enable_echo_cancellation")} :
        \A ratio \in {Effective("min_energy_ratio")} :
        \A mix \in {Effective("mix_ratio")} :
        \A interval \in {Effective("debug_interval")} :
        \A original \in {[i \in 1..Len(arg') |-> IF arg'[i] = NaN THEN 0 ELSE arg'[i]]} :
            IF ~enable \/ reference_audio = None
            THEN path' = "bypass" /\ ret' = original
            ELSE
                \A cancelled \in {CancelledFrame} :
                \A over \in {/\ BNLess(BNMul(SumSq(cancelled), BNOf(Scale * Scale)),
                                       BNMul(SumSq(original), BNOf(ratio * ratio)))
                             /\ BNLess(BNOf(100 * 100 * Len(original)), SumSq(original))} :
                    /\ over_suppression_count' =
                            over_suppression_count + (IF over THEN 1 ELSE 0)
                    /\ (path' = "raised") <=> (enable_debug /\ interval = 0)
                    /\ path' # "raised" =>
                            ret' = IF over
                                   THEN [i \in 1..Len(original) |->
                                            ToInt16(original[i] * mix
                                                    + cancelled[i] * (Scale - mix))]
                                   ELSE cancelled]_vars

\* one second into warmup the frame <<400, 1000>> is cancelled to <<140, 0>>,
\* which the default minimum energy ratio lets through; under the new ratio
\* 0.15 it was blended, at the new mix ratio 0.25
C17_Witness ==
    /\ Processed /\ path = "blend"
    /\ arg = <<400, 1000>> /\ ret = <<205, 250>>
    /\ min_energy_ratio = 150 /\ mix_ratio = 250

\* the last step was a call of process_audio on the EchoCanceller itself
Cancelled == op = "process_audio"

\* the number of samples in the most recent frames of a buffer, as many
\* frames as _get_reference_signal looks at
RECURSIVE WindowSamples(_, _)
WindowSamples(buffer, frames) ==
    IF frames = 0 \/ buffer = <<>> THEN 0
    ELSE Len(buffer[Len(buffer)])
         + WindowSamples(SubSeq(buffer, 1, Len(buffer) - 1), frames - 1)

\* a frame passed through the noise gate and the warmup ramp, then clamped
\* and converted as process_audio does
GateAndWarmup(frame, elapsed) ==
    LET warmed == WarmupProcessing(NoiseGate([i \in 1..Len(frame) |-> ToFloat(frame[i])]),
                                   elapsed)
    IN  [i \in 1..Len(frame) |->
            ToInt16(Clip(warmed[i], -ToFloat(INT16_LIMIT), ToFloat(INT16_LIMIT)))]

\* C19: when echo_buffer is empty, or its most recent frames (as many as
\* _get_reference_signal concatenates) hold fewer samples than the filter
\* has coefficients, process_audio predicts no echo: the filter and the
\* echo-detected counter are unchanged and the frame returned is the input
\* passed through the noise gate and the warmup ramp only.
C19_InsufficientReference ==
    [][(Cancelled' /\ processed_frames' = processed_frames + 1
            /\ WindowSamples(echo_buffer', RefWindowFrames) < ADAPTIVE_FILTER_LENGTH) =>
        /\ UNCHANGED <<adaptive_filter, echo_detected_frames>>
        /\ ret' = GateAndWarmup(arg', now - start_time)]_vars

\* a frame was only gated and ramped although echo_buffer held three frames,
\* the last two of them too short together
C19_Witness ==
    /\ Cancelled /\ path = "gate"
    /\ Len(echo_buffer) = 3
    /\ WindowSamples(echo_buffer, RefWindowFrames) = 2
    /\ ret[1] # 0

\* the factor the noise gate is to apply to a frame of samples: the
\* attenuation when its RMS is below the threshold, the unity gain otherwise
GateFactorFor(frame) ==
    IF BNLess(SumSq(frame),
              BNOf(NOISE_GATE_THRESHOLD * NOISE_GATE_THRESHOLD * Len(frame)))
    THEN NOISE_GATE_ATTENUATION
    ELSE GAIN_FACTOR

\* process_audio ran with no usable reference
GateOnly ==
    /\ Cancelled' /\ processed_frames' = processed_frames + 1
    /\ WindowSamples(echo_buffer', RefWindowFrames) < ADAPTIVE_FILTER_LENGTH

\* C20, as stated: when process_audio runs with no usable reference, every
\* returned sample is the input sample times the attenuation factor if the
\* RMS of the input is below the noise gate threshold, and times the unity
\* gain factor if it is at or above it (to within the integer conversion).
C20_AsStated ==
    [][GateOnly =>
        \A factor \in {GateFactorFor(arg')} :
        \A i \in 1..Len(arg') :
            Abs(ToFloat(ret'[i]) - arg'[i] * factor) < Scale]_vars

\* C20, amended: when process_audio runs with no usable reference, the input
\* samples are multiplied by the attenuation factor if the RMS of the input
\* is below the noise gate threshold and by the unity gain factor if it is
\* at or above it, and clamped to [-32767, 32767]; once the warmup time has
\* elapsed the returned samples are these values converted to integers, and
\* before that these values scaled by (elapsed / warmup_duration) times the
\* warmup gain factor, converted to integers.
C20_GateThenWarmup ==
    [][GateOnly =>
        \A factor \in {GateFactorFor(arg')} :
        \A gated \in {[i \in 1..Len(arg') |->
                        Clip(arg'[i] * factor,
                             -ToFloat(INT16_LIMIT), ToFloat(INT16_LIMIT))]} :
            /\ Len(ret') = Len(arg')
            /\ now - start_time >= WARMUP_DURATION * TicksPerSecond =>
                    \A i \in 1..Len(arg') :
                        /\ Abs(ToFloat(ret'[i]) - gated[i]) < Scale
                        /\ Abs(ToFloat(ret'[i])) <= Abs(gated[i])
            /\ now - start_time < WARMUP_DURATION * TicksPerSecond =>
                    \A ramped \in {WarmupProcessing(gated, now - start_time)} :
                    \A i \in 1..Len(arg') :
                        /\ Abs(ToFloat(ret'[i]) - ramped[i]) < Scale
                        /\ Abs(ToFloat(ret'[i])) <= Abs(ramped[i])]_vars

\* after warmup a quiet frame came back attenuated to 0.3 of itself, the
\* fraction of 2.1 dropped
C20_Witness ==
    /\ Cancelled /\ path = "gate"
    /\ now - start_time = WARMUP_DURATION * TicksPerSecond
    /\ arg = <<7, -150>> /\ ret = <<2, -45>>

\* the filter, histories, stored reference, counters and parameters of an
\* instance given as a record of its fields
StateOf(instance) ==
    <<instance.adaptive_filter, instance.echo_buffer, instance.input_buffer,
      instance.reference_audio, instance.frame_count,
      instance.over_suppression_count, instance.processed_frames,
      instance.echo_detected_frames, instance.start_time,
      instance.enable_echo_cancellation, instance.enable_debug,
      instance.min_energy_ratio, instance.mix_ratio, instance.debug_interval>>

C14_AsStated ==
    InSync =>
        /\ adaptive_filter = peer.adaptive_filter
        /\ echo_buffer = peer.echo_buffer
        /\ input_buffer = peer.input_buffer
        /\ frame_count = peer.frame_count
        /\ over_suppression_count = peer.over_suppression_count
        /\ processed_frames = peer.processed_frames
        /\ echo_detected_frames = peer.echo_detected_frames
        /\ (op = "process_microphone_audio" /\ peer.op = "process_microphone_audio")
                => (path = peer.path /\ ret = peer.ret)

\* process_audio predicted an echo in the step
Predicted == Cancelled' /\ processed_frames' = processed_frames + 1 /\ path' = "predict"

\* the echo predicted in the step: the filter run over the last samples of
\* the reference window, one sample
PredictedEcho ==
    ConvolveValid(LastN(GetReferenceSignal(echo_buffer'), ADAPTIVE_FILTER_LENGTH),
                  adaptive_filter)

\* a frame of floats passed through the noise gate and the warmup ramp, then
\* clamped and converted as process_audio does
FinishFrame(frame, elapsed) ==
    LET warmed == WarmupProcessing(NoiseGate(frame), elapsed)
    IN  [i \in 1..Len(frame) |->
            ToInt16(Clip(warmed[i], -ToFloat(INT16_LIMIT), ToFloat(INT16_LIMIT)))]

\* C21: when echo prediction runs, what is subtracted from an input sample
\* is 30% of the predicted echo if the mean square of the predicted echo is
\* strictly greater than 80% of the mean square of the input samples it is
\* compared with, and 70% of it otherwise, the boundary included; the frame
\* returned is the difference (zero where no echo was predicted), gated,
\* ramped and converted.
C21_ReductionFactor ==
    [][Predicted =>
        \A echo \in {PredictedEcho} :
        \A input \in {[i \in 1..Len(echo) |-> ToFloat(arg'[i])]} :
        \A high \in {BNLess(BNMul(SumSq(input), BNOf(80)),
                            BNMul(SumSq(echo), BNOf(100)))} :
        \A subtracted \in {[i \in 1..Len(echo) |->
                              IF high THEN MulFrac(echo[i], 30, 100)
                                      ELSE MulFrac(echo[i], 70, 100)]} :
            ret' = FinishFrame([i \in 1..Len(arg') |->
                                    IF i <= Len(echo)
                                    THEN input[i] - subtracted[i]
                                    ELSE 0],
                               now - start_time)]_vars

\* a quiet sample against a loud prediction: 7 - 0.3 * 50 = -8, gated to -2.4
C21_Witness ==
    /\ Cancelled /\ path = "predict"
    /\ arg = <<7, -150>> /\ ret = <<-2, 0>>
    /\ now - start_time >= WARMUP_DURATION * TicksPerSecond

\* the gain _warmup_processing applies at a given elapsed time, read off a
\* sample of amplitude 1.0
AppliedGain(elapsed) == WarmupProcessing(<<ToFloat(1)>>, elapsed)[1]

\* (elapsed / warmup_duration) * warmup_gain_factor during warmup, 1 after it
RampGain(elapsed) ==
    IF elapsed < WARMUP_DURATION * TicksPerSecond
    THEN (elapsed * WARMUP_GAIN_FACTOR) \div (WARMUP_DURATION * TicksPerSecond)
    ELSE ToFloat(1)

\* C23: with a clock that does not go back and no reset, the gain
\* process_audio applies is (elapsed / warmup_duration) * warmup_gain_factor
\* while elapsed < warmup_duration and exactly 1 from elapsed =
\* warmup_duration on; it starts at 0 and never decreases as time passes;
\* every frame returned is the gated frame times that gain, clamped and
\* converted.
C23_WarmupGain ==
    /\ [](/\ AppliedGain(0) = 0
          /\ AppliedGain(now - start_time) = RampGain(now - start_time)
          /\ \A earlier \in 0..(now - start_time) :
                AppliedGain(earlier) <= AppliedGain(now - start_time))
    /\ [][(Cancelled' /\ processed_frames' = processed_frames + 1) =>
            \A gated \in {EchoCancellation([i \in 1..Len(arg') |-> ToFloat(arg'[i])],
                                           echo_buffer', adaptive_filter,
                                           echo_detected_frames).cleaned} :
            \A gain \in {RampGain(now - start_time)} :
                ret' = [i \in 1..Len(arg') |->
                            ToInt16(Clip(MulFrac(gated[i], gain, Scale),
                                         -ToFloat(INT16_LIMIT), ToFloat(INT16_LIMIT)))]]_vars

\* half way through the warmup a frame at the gate threshold came back at
\* 0.35 of its amplitude
C23_Witness ==
    /\ Cancelled /\ path = "gate"
    /\ 2 * (now - start_time) = WARMUP_DURATION * TicksPerSecond
    /\ arg = <<200, 200>> /\ ret = <<70, 70>>

\* the frame process_audio is to return for the frame given to the process
\* call of this step when the ramp is counted from start_time: the frame
\* after subtraction and gate, times the ramp gain, clamped and converted
RampedFrame ==
    LET cleaned == EchoCancellation(
                        [i \in 1..Len(arg') |->
                            IF arg'[i] = NaN THEN 0 ELSE ToFloat(arg'[i])],
                        AddReferenceAudio(echo_buffer, reference_audio),
                        adaptive_filter, echo_detected_frames).cleaned
    IN  [i \in 1..Len(cleaned) |->
            ToInt16(Clip(MulFrac(cleaned[i], RampGain(now - start_time), Scale),
                         -ToFloat(INT16_LIMIT), ToFloat(INT16_LIMIT)))]

\* C24: reset() restarts the warmup clock.  A reset at time t makes t the
\* instant elapsed time is measured from, and nothing but a reset moves it;
\* a frame cancelled before t + warmup_duration is scaled by the ramp for
\* the time elapsed since t, also when the warmup had completed before the
\* reset; and until then get_statistics reports the warmup as not completed.
C24_ResetRestartsWarmup ==
    /\ [][/\ resets' = resets + 1 => start_time' = now'
          /\ resets' = resets => start_time' = start_time]_vars
    /\ []((resets > 0 /\ now - start_time < WARMUP_DURATION * TicksPerSecond) =>
            ~Statistics.echo_canceller_stats.warmup_completed)
    /\ [][(process_calls' = process_calls + 1 /\ path' \in {"cancel", "blend"}
                /\ resets > 0) =>
            \A original \in {[i \in 1..Len(arg') |->
                                IF arg'[i] = NaN THEN 0 ELSE arg'[i]]} :
            \A cancelled \in {RampedFrame} :
                ret' = SafetyCheckAndMix(original, cancelled,
                                         min_energy_ratio, mix_ratio).final]_vars

\* the warmup was over when reset() was called at time 2; the frame
\* cancelled right after it came back scaled by 0 where it would have come
\* back as <<2, 0>>
C24_Witness ==
    /\ resets = 1 /\ start_time = WARMUP_DURATION * TicksPerSecond
    /\ Processed /\ path = "cancel"
    /\ arg = <<7, NaN>> /\ ret = <<0, 0>>

\* C26: in every state 0 <= echo_detected_frames <= processed_frames <=
\* frame_count and 0 <= over_suppression_count <= processed_frames, so the
\* echo-detection rate and the over-suppression rate get_statistics reports
\* lie in [0, 1]; a process call raises echo_detected_frames by at most 1.
C26_CounterOrder ==
    /\ [](/\ 0 <= echo_detected_frames
          /\ echo_detected_frames <= processed_frames
          /\ processed_frames <= frame_count
          /\ 0 <= over_suppression_count
          /\ over_suppression_count <= processed_frames
          /\ 0 <= Statistics.echo_canceller_stats.echo_detection_rate
          /\ Statistics.echo_canceller_stats.echo_detection_rate <= ToFloat(1)
          /\ 0 <= Statistics.manager_stats.over_suppression_rate
          /\ Statistics.manager_stats.over_suppression_rate <= ToFloat(1))
    /\ [][process_calls' = process_calls + 1 =>
            echo_detected_frames' <= echo_detected_frames + 1]_vars

\* two frames went through the core, the second one was counted as an echo:
\* the echo-detection rate is 0.5
C26_Witness ==
    /\ Processed /\ path = "cancel"
    /\ frame_count = 2 /\ processed_frames = 2
    /\ echo_detected_frames = 1 /\ over_suppression_count = 0
    /\ 2 * Statistics.echo_canceller_stats.echo_detection_rate = ToFloat(1)

\* C27: a process call made while cancellation is disabled or no reference
\* is stored leaves the core untouched: the filter, both histories, the
\* core's processed and echo-detected counters and the over-suppression
\* counter are unchanged.  An update_reference_audio call that completes
\* while cancellation is disabled still stores the (sanitized) frame and
\* appends it to echo_buffer.
C27_BypassLeavesCore ==
    [][/\ (process_calls' = process_calls + 1
            /\ (~enable_echo_cancellation \/ reference_audio = None)) =>
                UNCHANGED <<adaptive_filter, echo_buffer, input_buffer,
                            processed_frames, echo_detected_frames,
                            over_suppression_count>>
       /\ (Len(supplied') = Len(supplied) + 1 /\ ~enable_echo_cancellation) =>
            \A frame \in {[i \in 1..Len(arg') |->
                            IF arg'[i] = NaN THEN 0 ELSE arg'[i]]} :
                /\ reference_audio' = frame
                /\ Len(echo_buffer') = Min(Len(echo_buffer) + 1, ECHO_BUFFER_SIZE)
                /\ echo_buffer'[Len(echo_buffer')] = frame]_vars

\* cancellation is disabled: a frame was processed and left the core alone,
\* then a reference was given, stored and appended
C27_Witness ==
    /\ ~enable_echo_cancellation
    /\ op = "update_reference_audio" /\ path = "stored"
    /\ reference_audio = <<5, 5>> /\ echo_buffer = <<<<5, 5>>>>
    /\ frame_count = 1 /\ processed_frames = 0

\* C28, as stated: after reset() the manager is in the bypass state even
\* with cancellation enabled.  Until an update_reference_audio call with a
\* non-empty frame has succeeded, get_statistics reports that no reference
\* is present and process_microphone_audio returns each frame sanitized and
\* leaves the core untouched.
C28_AsStated ==
    /\ []((resets > 0 /\ supplied = <<>>) =>
            ~Statistics.manager_stats.has_reference_audio)
    /\ [][(process_calls' = process_calls + 1 /\ ~NoSamples(arg')
                /\ resets > 0 /\ supplied = <<>>) =>
            /\ ret' = [i \in 1..Len(arg') |-> IF arg'[i] = NaN THEN 0 ELSE arg'[i]]
            /\ UNCHANGED <<adaptive_filter, echo_buffer, input_buffer,
                           processed_frames, echo_detected_frames,
                           over_suppression_count>>]_vars

\* C29: the reference window the filter is run on has exactly as many
\* samples as the filter has coefficients, so the prediction has one sample
\* and an update changes the first coefficient only: in every state every
\* coefficient but the first is 0, and a frame cancelled by echo prediction
\* is 0 at every index but the first before the noise gate, hence in the
\* frame returned.
C29_FirstCoefficientOnly ==
    /\ [](\A i \in 2..Len(adaptive_filter) : adaptive_filter[i] = 0)
    /\ [][Predicted =>
            \A window \in {LastN(GetReferenceSignal(echo_buffer'),
                                 ADAPTIVE_FILTER_LENGTH)} :
            \A echo \in {PredictedEcho} :
            \A sub \in {SubtractEcho([i \in 1..Len(arg') |-> ToFloat(arg'[i])],
                                     echo, window, adaptive_filter,
                                     echo_detected_frames)} :
                /\ Len(window) = Len(adaptive_filter)
                /\ Len(echo) = 1
                /\ Len(sub.cleaned) = Len(arg')
                /\ \A i \in 2..Len(arg') : sub.cleaned[i] = 0 /\ ret'[i] = 0
                /\ adaptive_filter' = sub.filter
                /\ \A i \in 2..Len(adaptive_filter) :
                        adaptive_filter'[i] = adaptive_filter[i]]_vars

\* the first coefficient has moved to 10 and back to 8.56; the second sample
\* of the frame, -150, came back as 0
C29_Witness ==
    /\ Cancelled /\ path = "predict"
    /\ adaptive_filter = <<8560, 0, 0>>
    /\ arg = <<7, -150>> /\ ret[1] # 0 /\ ret[2] = 0

\* C30, as stated: at every clock value the warmup_completed flag of
\* get_statistics is true exactly when a process_audio call made at that
\* clock value would apply no warmup scaling, elapsed = warmup_duration
\* included.
C30_AsStated ==
    Statistics.echo_canceller_stats.warmup_completed
        <=> (AppliedGain(now - start_time) = ToFloat(1))

\* the reference window the prediction of this step is made from
Window == LastN(GetReferenceSignal(echo_buffer'), ADAPTIVE_FILTER_LENGTH)

\* a non-finite value enters the gradient computation of this step: the
\* reference sample the gradient is formed with, or the error, which is the
\* first input sample less a share of the prediction and is not finite when
\* that sample or any sample of the window is not
NonFiniteIntoGradient ==
    \/ ~IsFinite(arg'[1])
    \/ \E k \in 1..Len(Window) : ~IsFinite(Window[k])

\* C22: if an error or reference value entering the gradient computation of
\* a frame is not finite, the coefficient update of that frame is skipped:
\* after process_audio every coefficient is what it was before the call;
\* the filter is not set to zero.
C22_NonFiniteSkipsUpdate ==
    [][(Predicted /\ NonFiniteIntoGradient) =>
            adaptive_filter' = adaptive_filter]_vars

\* the filter had adapted to 10; the next frame, whose first sample is NaN,
\* was processed against a finite reference and left it at 10
C22_Witness ==
    /\ Cancelled /\ path = "predict"
    /\ arg = <<NaN, 200>> /\ processed_frames = 2
    /\ AllFinite(Concat(echo_buffer))
    /\ adaptive_filter = <<ToFloat(COEFF_LIMIT), 0, 0>>

\* a float rounded to the nearest integer
Round(x) == Sgn(x) * ((Abs(x) + Scale \div 2) \div Scale)

\* C25, as stated: the integer conversion at the end of process_audio rounds
\* each clamped sample to the nearest integer and does not truncate it: for
\* a finite processed value v the returned sample is round(v) (v clamped to
\* [-32767, 32767]); a processed value that is not finite is first replaced
\* by the input sample at its index.
C25_AsStated ==
    [][(Cancelled' /\ processed_frames' = processed_frames + 1) =>
        \A input \in {FrameToFloat(arg')} :
        \A processed \in {WarmupProcessing(
                            EchoCancellation(input, echo_buffer', adaptive_filter,
                                             echo_detected_frames).cleaned,
                            now - start_time)} :
            /\ Len(ret') = Len(arg')
            /\ \A i \in 1..Len(arg') :
                \A v \in {IF processed[i] = FloatNaN THEN input[i] ELSE processed[i]} :
                    v # FloatNaN =>
                        ret'[i] = Round(Clip(v, -ToFloat(INT16_LIMIT),
                                             ToFloat(INT16_LIMIT)))]_vars

====
